---- MODULE Spec2Model ----
(***************************************************************************)
(* white_border_adder (src/rust/src/main.rs): the serial batch driver in   *)
(* main, the per-image pipeline process_image and its geometry.            *)
(*                                                                         *)
(* f64 values are modelled as exact rationals [n, d] in lowest terms; the  *)
(* four border ratios are multiples of 1/RatioDen.  u32 values are plain   *)
(* naturals, and the one u32 subtraction of the program carries an         *)
(* `underflow` flag in place of the wrapped value.                         *)
(***************************************************************************)
EXTENDS Integers, Sequences, FiniteSets, TLC

VARIABLES
  config,          \* Config built by Config::from_args
  pc,              \* position in main / in the call under study
  remaining,       \* directory entries the read_dir iterator still yields
  index,           \* directory entries consumed so far
  total_ok, total_fail, total_duration, fastest, slowest,
  outcomes,        \* history: one record per candidate handed to process_image
  img,             \* dimensions of the last decoded source, <<>> if none
  geom,            \* geometry of the last decoded source, <<>> if none
  canvas,          \* canvas composited by the last call, <<>> if none
  result,          \* how the last call of process_image ended
  written,         \* whether the last call wrote its output file
  summary          \* the printed summary, <<>> until it is printed

vars == <<config, pc, remaining, index, total_ok, total_fail, total_duration,
          fastest, slowest, outcomes, img, geom, canvas, result, written,
          summary>>

-----------------------------------------------------------------------------
(* Bounds of the model *)
MaxEntries == 3
MaxElapsed == 2
MaxDim == 2
MaxTarget == 4

(* Program constants *)
RatioDen == 200
DefaultWidth == 1080
DefaultHeight == 1080
DefaultLandscapeVert == 10
DefaultLandscapeHoriz == 6
DefaultPortraitVert == 1
DefaultPortraitHoriz == 36

WHITE == <<255, 255, 255, 255>>

\* A pixel of the resampled source: the resize primitive is opaque.
SourcePixel == <<0, 0, 0, 255>>

-----------------------------------------------------------------------------
(* f64 arithmetic, as exact rationals *)

Abs(i) == IF i < 0 THEN -i ELSE i

RECURSIVE GCD(_, _)
GCD(a, b) == IF b = 0 THEN a ELSE GCD(b, a % b)

F64(n, d) == LET g == GCD(Abs(n), d) IN [n |-> n \div g, d |-> d \div g]

as_f64(u) == [n |-> u, d |-> 1]

F64Sub(a, b) == F64(a.n * b.d - b.n * a.d, a.d * b.d)

F64Mul(a, b) == F64(a.n * b.n, a.d * b.d)

\* b > 0 : the divisor is a positive source dimension
F64Div(a, b) == F64(a.n * b.d, a.d * b.n)

\* variant: keeps the larger of the two axis scales
min_Larger(a, b) == IF a.n * b.d <= b.n * a.d THEN b ELSE a

min(a, b) == IF a.n * b.d <= b.n * a.d THEN a ELSE b

\* variant: truncates toward zero instead of rounding to nearest
round_Truncating(a) ==
  IF a.n >= 0 THEN a.n \div a.d ELSE -((-a.n) \div a.d)

\* f64::round : nearest integer, ties away from zero
round(a) ==
  IF a.n >= 0 THEN (2 * a.n + a.d) \div (2 * a.d)
              ELSE -((2 * (-a.n) + a.d) \div (2 * a.d))

\* `as u32` on an integral f64 : saturating, a negative value becomes 0
as_u32(i) == IF i < 0 THEN 0 ELSE i

Ratio(k) == F64(k, RatioDen)

-----------------------------------------------------------------------------
(* Geometry of process_image *)

\* variant: a square source counts as landscape
is_landscape_OrEqual(orig_width, orig_height) == orig_width >= orig_height

is_landscape(orig_width, orig_height) == orig_width > orig_height

SelectRatios(landscape, cfg) ==
  IF landscape
    THEN [vert_ratio  |-> Ratio(cfg.landscape_vert_border),
          horiz_ratio |-> Ratio(cfg.landscape_horiz_border)]
    ELSE [vert_ratio  |-> Ratio(cfg.portrait_vert_border),
          horiz_ratio |-> Ratio(cfg.portrait_horiz_border)]

\* target * (1.0 - 2.0 * ratio)
Available(target, ratio) ==
  F64Mul(as_f64(target), F64Sub(as_f64(1), F64Mul(as_f64(2), ratio)))

Scale(available_width, available_height, orig_width, orig_height) ==
  min(F64Div(available_width, as_f64(orig_width)),
      F64Div(available_height, as_f64(orig_height)))

Scaled(orig, scale) == as_u32(round(F64Mul(as_f64(orig), scale)))

\* (target - scaled) / 2 on u32 : the subtraction underflows when scaled > target
Offset(target, scaled) ==
  IF scaled > target
    THEN [underflow |-> TRUE,  value |-> 0]
    ELSE [underflow |-> FALSE, value |-> (target - scaled) \div 2]

Geometry(orig_width, orig_height, cfg) ==
  LET landscape == is_landscape(orig_width, orig_height)
      r == SelectRatios(landscape, cfg)
      available_width  == Available(cfg.target_width, r.horiz_ratio)
      available_height == Available(cfg.target_height, r.vert_ratio)
      scale == Scale(available_width, available_height, orig_width, orig_height)
      scaled_width  == Scaled(orig_width, scale)
      scaled_height == Scaled(orig_height, scale)
      ox == Offset(cfg.target_width, scaled_width)
      oy == Offset(cfg.target_height, scaled_height)
  IN [is_landscape     |-> landscape,
      vert_ratio       |-> r.vert_ratio,
      horiz_ratio      |-> r.horiz_ratio,
      available_width  |-> available_width,
      available_height |-> available_height,
      scale            |-> scale,
      scaled_width     |-> scaled_width,
      scaled_height    |-> scaled_height,
      underflow        |-> ox.underflow \/ oy.underflow,
      offset_x         |-> ox.value,
      offset_y         |-> oy.value]

-----------------------------------------------------------------------------
(* Canvas *)

\* variant: a zeroed (transparent black) buffer, as ImageBuffer::new gives
from_pixel_Zeroed(width, height, pixel) ==
  [width  |-> width,
   height |-> height,
   pixels |-> [p \in (0 .. width - 1) \X (0 .. height - 1) |-> <<0, 0, 0, 0>>]]

from_pixel(width, height, pixel) ==
  [width  |-> width,
   height |-> height,
   pixels |-> [p \in (0 .. width - 1) \X (0 .. height - 1) |-> pixel]]

\* imageops::resize : a buffer of the requested size, contents opaque
resize(nwidth, nheight) == from_pixel(nwidth, nheight, SourcePixel)

InRect(p, x, y, w, h) ==
  /\ x <= p[1] /\ p[1] < x + w
  /\ y <= p[2] /\ p[2] < y + h

\* GenericImage::copy_from : fails when `other` does not fit at (x, y)
copy_from(self, other, x, y) ==
  IF self.width < other.width + x \/ self.height < other.height + y
    THEN [ok |-> FALSE, image |-> self]
    ELSE [ok |-> TRUE,
          image |-> [self EXCEPT !.pixels =
                      [p \in DOMAIN self.pixels |->
                        IF InRect(p, x, y, other.width, other.height)
                          THEN other.pixels[<<p[1] - x, p[2] - y>>]
                          ELSE self.pixels[p]]]]

-----------------------------------------------------------------------------
(* process_image.  src: the file (decodable, width, height); env: what the *)
(* surroundings decide (write_ok: the output can be created and encoded;   *)
(* overflow_checks: the build panics on integer overflow).                 *)

Return(res, stage, i, g, c, w) ==
  [result |-> res, stage |-> stage, img |-> i, geom |-> g, canvas |-> c,
   written |-> w]

process_image(src, env, cfg) ==
  IF ~src.decodable
    THEN Return("Err", "decode", <<>>, <<>>, <<>>, FALSE)
    ELSE
      LET i == [width |-> src.width, height |-> src.height]
          g == Geometry(src.width, src.height, cfg)
      IN IF g.underflow
           THEN \* checked build: panic at the subtraction; wrapping build:
                \* the offset is at least 2^31 and copy_from rejects it
                IF env.overflow_checks
                  THEN Return("Panic", "geometry", <<i>>, <<g>>, <<>>, FALSE)
                  ELSE Return("Err", "composite", <<i>>, <<g>>, <<>>, FALSE)
           ELSE
             LET blank == from_pixel(cfg.target_width, cfg.target_height, WHITE)
                 resized == resize(g.scaled_width, g.scaled_height)
                 c == copy_from(blank, resized, g.offset_x, g.offset_y)
             IN IF ~c.ok
                  THEN Return("Err", "composite", <<i>>, <<g>>, <<>>, FALSE)
                  ELSE IF ~env.write_ok
                    THEN Return("Err", "encode", <<i>>, <<g>>, <<c.image>>, FALSE)
                    ELSE Return("Ok", "done", <<i>>, <<g>>, <<c.image>>, TRUE)

-----------------------------------------------------------------------------
(* The batch loop of main *)

\* variant: a later file with an equal duration replaces the fastest
UpdateFastest_OnTie(current, filename, elapsed) ==
  IF current = <<>> \/ elapsed <= current[1].d
    THEN <<[name |-> filename, d |-> elapsed]>>
    ELSE current

\* fastest.as_ref().map(|(_, d)| elapsed < *d).unwrap_or(true)
UpdateFastest(current, filename, elapsed) ==
  IF current = <<>> \/ elapsed < current[1].d
    THEN <<[name |-> filename, d |-> elapsed]>>
    ELSE current

\* slowest.as_ref().map(|(_, d)| elapsed > *d).unwrap_or(true)
UpdateSlowest(current, filename, elapsed) ==
  IF current = <<>> \/ elapsed > current[1].d
    THEN <<[name |-> filename, d |-> elapsed]>>
    ELSE current

\* variant: the elapsed time of a failed file is accumulated too
Accumulate_TimesFailures(acc, filename, res, elapsed) ==
  IF res = "Ok"
    THEN [total_ok       |-> acc.total_ok + 1,
          total_fail     |-> acc.total_fail,
          total_duration |-> acc.total_duration + elapsed,
          fastest        |-> UpdateFastest(acc.fastest, filename, elapsed),
          slowest        |-> UpdateSlowest(acc.slowest, filename, elapsed)]
    ELSE [acc EXCEPT !.total_fail = acc.total_fail + 1,
                     !.total_duration = acc.total_duration + elapsed]

\* the two arms of `match process_image(..)`
Accumulate(acc, filename, res, elapsed) ==
  IF res = "Ok"
    THEN [total_ok       |-> acc.total_ok + 1,
          total_fail     |-> acc.total_fail,
          total_duration |-> acc.total_duration + elapsed,
          fastest        |-> UpdateFastest(acc.fastest, filename, elapsed),
          slowest        |-> UpdateSlowest(acc.slowest, filename, elapsed)]
    ELSE [acc EXCEPT !.total_fail = acc.total_fail + 1]

\* variant: the error of process_image is propagated with `?`
AfterCandidate_Propagating(res) == IF res = "Ok" THEN "loop" ELSE "panicked"

\* where main is after the match: both arms fall through to the next
\* iteration; only a panic inside process_image unwinds out of main
AfterCandidate(res) == IF res = "Panic" THEN "panicked" ELSE "loop"

\* variant: the average is taken over every attempted file
Report_OverAttempts(ok, fail, duration, fast, slow) ==
  [total_ok   |-> ok,
   total_fail |-> fail,
   average    |-> IF ok + fail > 0 THEN <<[n |-> duration, d |-> ok + fail]>>
                                   ELSE <<>>,
   fastest    |-> fast,
   slowest    |-> slow]

\* the summary block printed after the loop
Report(ok, fail, duration, fast, slow) ==
  [total_ok   |-> ok,
   total_fail |-> fail,
   average    |-> IF ok > 0 THEN <<[n |-> duration, d |-> ok]>> ELSE <<>>,
   fastest    |-> IF ok > 0 THEN fast ELSE <<>>,
   slowest    |-> IF ok > 0 THEN slow ELSE <<>>]

-----------------------------------------------------------------------------
(* Inputs *)

ConfigsOver(T, R) ==
  [target_width : T, target_height : T,
   landscape_vert_border : R, landscape_horiz_border : R,
   portrait_vert_border : R, portrait_horiz_border : R]

\* border ratios in units of 1/RatioDen, within the documented range 0.0-1.0
BatchRatios == {50, 100}
ImageRatios == {0, 50, 100}
GeomRatios  == {0, 50, 99, 100, 200}
DefaultRatios == {DefaultLandscapeVert, DefaultLandscapeHoriz,
                  DefaultPortraitVert, DefaultPortraitHoriz}

\* the batch runs vary the horizontal ratio of each orientation
BatchTarget == 4
BatchConfigs ==
  {c \in ConfigsOver({BatchTarget}, BatchRatios) :
     c.landscape_vert_border = 50 /\ c.portrait_vert_border = 50}
ImageConfigs == ConfigsOver(1 .. MaxTarget, ImageRatios)
GeomConfigs  == ConfigsOver(1 .. MaxTarget, GeomRatios)
                  \cup ConfigsOver({DefaultWidth}, DefaultRatios)

Dims == 1 .. MaxDim
ScenarioDims == {800, 1000, 1200, 2000}

Sources == [decodable : BOOLEAN, width : Dims, height : Dims]
Envs == [write_ok : BOOLEAN, overflow_checks : BOOLEAN]

\* the batch runs see a square (portrait) and a landscape source
BatchSources == [decodable : BOOLEAN, width : {1, 2}, height : {1}]
Elapsed == 1 .. MaxElapsed

-----------------------------------------------------------------------------
(* State after main has opened the directory and zeroed its accumulators *)

InitCommon ==
  /\ index = 0
  /\ total_ok = 0 /\ total_fail = 0 /\ total_duration = 0
  /\ fastest = <<>> /\ slowest = <<>>
  /\ outcomes = <<>>
  /\ img = <<>> /\ geom = <<>> /\ canvas = <<>>
  /\ result = "none" /\ written = FALSE
  /\ summary = <<>>

Init ==
  /\ config \in BatchConfigs
  /\ pc = "loop"
  /\ remaining \in 0 .. MaxEntries
  /\ InitCommon

\* `let entry = entry?;` : the iterator yields an I/O error, main returns it
EntryError ==
  /\ pc = "loop" /\ remaining > 0
  /\ pc' = "entry_error"
  /\ remaining' = remaining - 1
  /\ index' = index + 1
  /\ UNCHANGED <<config, total_ok, total_fail, total_duration, fastest,
                 slowest, outcomes, img, geom, canvas, result, written,
                 summary>>

\* not a file, or an extension other than jpg / jpeg / png : `continue`
SkipEntry ==
  /\ pc = "loop" /\ remaining > 0
  /\ remaining' = remaining - 1
  /\ index' = index + 1
  /\ UNCHANGED <<config, pc, total_ok, total_fail, total_duration, fastest,
                 slowest, outcomes, img, geom, canvas, result, written,
                 summary>>

\* a candidate file: process_image and the match on its result
Candidate ==
  /\ pc = "loop" /\ remaining > 0
  /\ \E src \in BatchSources, env \in Envs, elapsed \in Elapsed :
     \E r \in {process_image(src, env, config)} :
       LET filename == index + 1
           acc == [total_ok |-> total_ok, total_fail |-> total_fail,
                   total_duration |-> total_duration,
                   fastest |-> fastest, slowest |-> slowest]
       IN \E new \in {IF r.result = "Panic" THEN acc
                      ELSE Accumulate(acc, filename, r.result, elapsed)} :
          /\ total_ok' = new.total_ok
          /\ total_fail' = new.total_fail
          /\ total_duration' = new.total_duration
          /\ fastest' = new.fastest
          /\ slowest' = new.slowest
          /\ pc' = AfterCandidate(r.result)
          /\ outcomes' = Append(outcomes,
                           [name |-> filename,
                            valid |-> src.decodable /\ env.write_ok,
                            ok |-> r.result = "Ok",
                            elapsed |-> elapsed])
          /\ img' = r.img /\ geom' = r.geom /\ canvas' = r.canvas
          /\ result' = r.result /\ written' = r.written
  /\ remaining' = remaining - 1
  /\ index' = index + 1
  /\ UNCHANGED <<config, summary>>

\* the iterator is exhausted: print the summary and return Ok(())
Reporting ==
  /\ pc = "loop" /\ remaining = 0
  /\ summary' = <<Report(total_ok, total_fail, total_duration, fastest, slowest)>>
  /\ pc' = "done"
  /\ UNCHANGED <<config, remaining, index, total_ok, total_fail,
                 total_duration, fastest, slowest, outcomes, img, geom,
                 canvas, result, written>>

Next == EntryError \/ SkipEntry \/ Candidate \/ Reporting

Spec == Init /\ [][Next]_vars

-----------------------------------------------------------------------------
(* One call of process_image *)

InitImage ==
  /\ config \in ImageConfigs
  /\ pc = "call"
  /\ remaining = 0
  /\ InitCommon

CallProcessImage ==
  /\ pc = "call"
  /\ \E src \in Sources, env \in Envs :
       \E r \in {process_image(src, env, config)} :
          /\ img' = r.img /\ geom' = r.geom /\ canvas' = r.canvas
          /\ result' = r.result /\ written' = r.written
  /\ pc' = "returned"
  /\ UNCHANGED <<config, remaining, index, total_ok, total_fail,
                 total_duration, fastest, slowest, outcomes, summary>>

NextImage == CallProcessImage

SpecImage == InitImage /\ [][NextImage]_vars

-----------------------------------------------------------------------------
(* The geometry alone, up to the default 1080 x 1080 target *)

InitGeom ==
  /\ config \in GeomConfigs
  /\ pc = "decoded"
  /\ remaining = 0
  /\ InitCommon

ComputeGeometry ==
  /\ pc = "decoded"
  /\ \E w \in Dims \cup ScenarioDims, h \in Dims \cup ScenarioDims :
       /\ img' = <<[width |-> w, height |-> h]>>
       /\ geom' = <<Geometry(w, h, config)>>
  /\ pc' = "computed"
  /\ UNCHANGED <<config, remaining, index, total_ok, total_fail,
                 total_duration, fastest, slowest, outcomes, canvas, result,
                 written, summary>>

NextGeom == ComputeGeometry

SpecGeom == InitGeom /\ [][NextGeom]_vars

-----------------------------------------------------------------------------
(* Properties of the batch loop (Spec) *)

Attempted == 1 .. Len(outcomes)
Successes == {i \in Attempted : outcomes[i].ok}
Failures  == {i \in Attempted : ~outcomes[i].ok}
ValidFiles   == {i \in Attempted : outcomes[i].valid}
CorruptFiles == {i \in Attempted : ~outcomes[i].valid}

RECURSIVE SumElapsed(_)
SumElapsed(I) ==
  IF I = {} THEN 0
  ELSE LET i == CHOOSE j \in I : TRUE
       IN outcomes[i].elapsed + SumElapsed(I \ {i})

LastFailed == outcomes /= <<>> /\ ~outcomes[Len(outcomes)].ok

\* C1: a candidate that fails (it cannot be decoded, or its output cannot be
\* written) never takes main out of the loop; it is counted as exactly one
\* failure, every valid file is counted as a success wherever it comes in the
\* order, and a run that reports has consumed every directory entry.
C1_BatchResilience ==
  /\ pc /= "panicked"
  /\ LastFailed => pc \in {"loop", "done", "entry_error"}
  /\ total_ok = Cardinality(ValidFiles)
  /\ total_fail = Cardinality(CorruptFiles)
  /\ pc = "done" => remaining = 0

C1_Witness ==
  /\ pc = "done"
  /\ Len(outcomes) = 3
  /\ ~outcomes[1].valid /\ outcomes[2].valid /\ outcomes[3].valid
  /\ total_ok = 2 /\ total_fail = 1

\* C2: main never leaves the loop without printing the summary.
C2_AlwaysReports == pc /= "loop" => summary /= <<>>

FirstWith(I, d) ==
  CHOOSE i \in I : outcomes[i].elapsed = d
                   /\ \A j \in I : outcomes[j].elapsed = d => i <= j

MinElapsed(I) ==
  CHOOSE d \in {outcomes[i].elapsed : i \in I} :
    \A i \in I : d <= outcomes[i].elapsed

MaxElapsedOf(I) ==
  CHOOSE d \in {outcomes[i].elapsed : i \in I} :
    \A i \in I : d >= outcomes[i].elapsed

\* C4: at every point of the batch the recorded fastest (slowest) file is the
\* first successful file, in processing order, whose duration is the minimum
\* (maximum) over the successful files so far; none is recorded before the
\* first success.
C4_FirstSeenExtremum ==
  IF Successes = {}
    THEN fastest = <<>> /\ slowest = <<>>
    ELSE LET lo == MinElapsed(Successes)
             hi == MaxElapsedOf(Successes)
         IN /\ fastest = <<[name |-> outcomes[FirstWith(Successes, lo)].name,
                            d |-> lo]>>
            /\ slowest = <<[name |-> outcomes[FirstWith(Successes, hi)].name,
                            d |-> hi]>>

C4_Witness ==
  /\ Len(outcomes) = 3
  /\ Successes = {1, 2, 3}
  /\ outcomes[1].elapsed = 1 /\ outcomes[2].elapsed = 2
  /\ outcomes[3].elapsed = 1
  /\ fastest = <<[name |-> outcomes[1].name, d |-> 1]>>

\* the border ratio selected for the last decoded source is >= 0.5 on an axis
SelectedRatioAtLeastHalf ==
  /\ img /= <<>>
  /\ IF img[1].width > img[1].height
       THEN \/ 2 * config.landscape_vert_border >= RatioDen
            \/ 2 * config.landscape_horiz_border >= RatioDen
       ELSE \/ 2 * config.portrait_vert_border >= RatioDen
            \/ 2 * config.portrait_horiz_border >= RatioDen

\* C5: an image whose selected border ratio is >= 0.5 on an axis fails: it is
\* counted as a failure, no canvas is composited and no output is written.
C5_InvalidConfigFails ==
  SelectedRatioAtLeastHalf =>
    /\ result = "Err"
    /\ LastFailed
    /\ canvas = <<>>
    /\ ~written

\* C8: the printed summary always carries both counts; it carries the
\* average, the fastest and the slowest exactly when some file succeeded, and
\* then the average is the summed duration of the successful files over their
\* number.
C8_SummaryFields ==
  pc = "done" =>
    /\ summary /= <<>>
    /\ LET s == summary[1]
           n == Cardinality(Successes)
       IN /\ s.total_ok = n
          /\ s.total_fail = Cardinality(Failures)
          /\ (s.average /= <<>>) <=> (n > 0)
          /\ (s.fastest /= <<>>) <=> (n > 0)
          /\ (s.slowest /= <<>>) <=> (n > 0)
          /\ n > 0 => s.average = <<[n |-> SumElapsed(Successes), d |-> n]>>

C8_Witness ==
  /\ pc = "done"
  /\ Cardinality(Successes) = 2 /\ Cardinality(Failures) = 1
  /\ summary[1].average = <<[n |-> 3, d |-> 2]>>

\* C10: after every prefix of the batch the two counts add up to the number
\* of candidates attempted, and a step in which a candidate fails leaves the
\* accumulated duration, the fastest and the slowest entry as they were.
C10_OneOutcomePerCandidate ==
  /\ [](total_ok + total_fail = Len(outcomes))
  /\ [][(Len(outcomes') = Len(outcomes) + 1 /\ ~outcomes'[Len(outcomes')].ok)
          => UNCHANGED <<total_duration, fastest, slowest, total_ok>>]_vars

C10_Witness ==
  /\ Len(outcomes) = 2
  /\ outcomes[1].ok /\ ~outcomes[2].ok
  /\ total_ok = 1 /\ total_fail = 1
  /\ total_duration = outcomes[1].elapsed
  /\ fastest /= <<>>

-----------------------------------------------------------------------------
(* Properties of the geometry (SpecGeom) *)

RatiosBelowHalf ==
  \A k \in {config.landscape_vert_border, config.landscape_horiz_border,
            config.portrait_vert_border, config.portrait_horiz_border} :
    0 <= k /\ 2 * k < RatioDen

\* C3: for a source with positive dimensions and a Config with positive
\* target dimensions and all four ratios in [0, 0.5), the scaled image fits
\* the target on both axes, the subtraction target - scaled does not
\* underflow, and the placed rectangle lies within the canvas.
C3_ScaledFitsTarget ==
  (/\ geom /= <<>> /\ img /= <<>>
   /\ img[1].width > 0 /\ img[1].height > 0
   /\ config.target_width > 0 /\ config.target_height > 0
   /\ RatiosBelowHalf) =>
    LET g == geom[1]
    IN /\ ~g.underflow
       /\ g.scaled_width <= config.target_width
       /\ g.scaled_height <= config.target_height
       /\ g.offset_x >= 0 /\ g.offset_y >= 0
       /\ g.offset_x + g.scaled_width <= config.target_width
       /\ g.offset_y + g.scaled_height <= config.target_height

C3_Witness ==
  /\ geom /= <<>> /\ RatiosBelowHalf
  /\ geom[1].scaled_width = config.target_width
  /\ geom[1].scaled_height < config.target_height
  /\ geom[1].offset_y > 0

DefaultConfig ==
  [target_width |-> DefaultWidth, target_height |-> DefaultHeight,
   landscape_vert_border |-> DefaultLandscapeVert,
   landscape_horiz_border |-> DefaultLandscapeHoriz,
   portrait_vert_border |-> DefaultPortraitVert,
   portrait_horiz_border |-> DefaultPortraitHoriz]

GeometryIs(w, h, sw, sh, ox, oy) ==
  (config = DefaultConfig /\ img = <<[width |-> w, height |-> h]>>
   /\ geom /= <<>>) =>
    /\ geom[1].scaled_width = sw /\ geom[1].scaled_height = sh
    /\ geom[1].offset_x = ox /\ geom[1].offset_y = oy

\* C6: with the default 1080 x 1080 target and the default ratios, a
\* 2000 x 1000 source is scaled to 1015 x 508 at offsets (32, 286) and an
\* 800 x 1200 source to 691 x 1037 at offsets (194, 21).
C6_Scenarios ==
  /\ GeometryIs(2000, 1000, 1015, 508, 32, 286)
  /\ GeometryIs(800, 1200, 691, 1037, 194, 21)

C6_Witness ==
  /\ config = DefaultConfig
  /\ img = <<[width |-> 2000, height |-> 1000]>>
  /\ geom /= <<>> /\ geom[1].scaled_height = 508

\* C7: the interior area is computed from the landscape ratios exactly when
\* orig_width > orig_height, and from the portrait ratios for every other
\* source, a square one included.
C7_RatioSelection ==
  (geom /= <<>> /\ img /= <<>>) =>
    LET g == geom[1]
        landscape == img[1].width > img[1].height
        v == IF landscape THEN config.landscape_vert_border
                          ELSE config.portrait_vert_border
        h == IF landscape THEN config.landscape_horiz_border
                          ELSE config.portrait_horiz_border
    IN /\ g.is_landscape = landscape
       /\ g.vert_ratio.n * RatioDen = v * g.vert_ratio.d
       /\ g.horiz_ratio.n * RatioDen = h * g.horiz_ratio.d
       /\ g.available_width.n * RatioDen
            = config.target_width * (RatioDen - 2 * h) * g.available_width.d
       /\ g.available_height.n * RatioDen
            = config.target_height * (RatioDen - 2 * v) * g.available_height.d

C7_Witness ==
  /\ geom /= <<>> /\ img /= <<>>
  /\ img[1].width = img[1].height
  /\ config.portrait_horiz_border /= config.landscape_horiz_border
  /\ config.portrait_vert_border /= config.landscape_vert_border
  /\ geom[1].horiz_ratio = Ratio(config.portrait_horiz_border)

-----------------------------------------------------------------------------
(* Properties of one call of process_image (SpecImage) *)

\* C9: the canvas of a successfully processed image has exactly
\* target_width x target_height pixels, and every pixel outside the
\* rectangle [offset_x, offset_x + scaled_width) x [offset_y, offset_y +
\* scaled_height) is white (255, 255, 255, 255).
C9_CanvasWhiteOutside ==
  result = "Ok" =>
    /\ canvas /= <<>> /\ geom /= <<>>
    /\ LET c == canvas[1]
           g == geom[1]
       IN /\ c.width = config.target_width
          /\ c.height = config.target_height
          /\ DOMAIN c.pixels = (0 .. config.target_width - 1)
                                 \X (0 .. config.target_height - 1)
          /\ \A p \in DOMAIN c.pixels :
               ~InRect(p, g.offset_x, g.offset_y, g.scaled_width,
                       g.scaled_height)
                 => c.pixels[p] = <<255, 255, 255, 255>>

C9_Witness ==
  /\ result = "Ok" /\ written
  /\ canvas /= <<>> /\ geom /= <<>>
  /\ geom[1].offset_x > 0 /\ geom[1].offset_y > 0
  /\ geom[1].scaled_width > 0 /\ geom[1].scaled_height > 0
  /\ canvas[1].pixels[<<0, 0>>] = <<255, 255, 255, 255>>
  /\ canvas[1].pixels[<<geom[1].offset_x, geom[1].offset_y>>] = SourcePixel

====
